---- MODULE Spec2Model ----
(***************************************************************************)
(* Model of the DigiVerify verification engine (signatureVerifier.js, kept *)
(* in README.md from line 124 on) and of the status reductions of App.jsx. *)
(*                                                                         *)
(* JavaScript values that can have more than one type are tagged records  *)
(* ([t |-> "num", n |-> 3], [t |-> "arr", a |-> <<..>>], [t |-> "undef"],  *)
(* [t |-> "nan"], [t |-> "null"], [t |-> "str", s |-> ".."]), so that the  *)
(* coercions of the language are computed and never assumed.               *)
(***************************************************************************)
EXTENDS Integers, Sequences, FiniteSets, TLC

VARIABLES
    now,          \* the clock read by `new Date()`
    file,         \* the PDF handed to verifyPDFSignatures
    pc,           \* position of the verifyPDFSignatures promise
    sigFields,    \* signature-type form fields found by pdf.js
    sigObjects,   \* descriptors paired by the locator
    signatures,   \* results pushed so far by the verification loop
    out,          \* value the promise resolved with
    orig,         \* the document and output of the run before a modification
    csig,         \* argument of a direct getOverallStatus call
    cstatus,      \* its return value
    certFile,     \* the file handed to verifyCertificate
    certPc,       \* position of the verifyCertificate promise
    certOut,      \* value the verifyCertificate promise resolved with
    tab,          \* App: the tab shown
    pdfResult,    \* App: the result handed to the Report tab
    pdfFileName,  \* App: its file name
    history,      \* App: verification history, newest first
    loading,      \* PDFVerifierTab state
    tabResult,    \* PDFVerifierTab state `result`
    error,        \* PDFVerifierTab state
    fileName,     \* PDFVerifierTab state
    batchResults, \* PDFVerifierTab state
    batchMode,    \* PDFVerifierTab state
    calls,        \* processSingle / processBatch activations awaiting a file
    accepted,     \* the files of the last drop on the mounted PDFVerifierTab
    drops,        \* number of files dropped so far
    report        \* the report the Report tab shows, or a direct call returned

vars == <<now, file, pc, sigFields, sigObjects, signatures, out, orig,
          csig, cstatus, certFile, certPc, certOut,
          tab, pdfResult, pdfFileName, history, loading, tabResult, error,
          fileName, batchResults, batchMode, calls, accepted, drops, report>>

pdfVars == <<file, pc, sigFields, sigObjects, signatures, out, orig>>
clsVars == <<csig, cstatus>>
certVars == <<certFile, certPc, certOut>>
appVars == <<tab, pdfResult, pdfFileName, history>>
tabVars == <<loading, tabResult, error, fileName, batchResults, batchMode>>
uiVars == <<appVars, tabVars, calls, accepted, drops, report>>

(***************************************************************************)
(* Bounds of the model.                                                    *)
(***************************************************************************)
MaxDocLen == 3      \* length of a document in bytes
MaxFields == 2      \* marker matches of one kind in a document
MaxForm == 2        \* form fields pdf.js enumerates
MaxTime == 2        \* largest clock value and notAfter
MaxErrors == 2      \* length of an errors list given to the classifier
MaxFileLen == 3     \* length of a certificate file in bytes

Byte == 0..1

Null == [t |-> "null"]
Undefined == [t |-> "undef"]
NaN == [t |-> "nan"]
Num(n) == [t |-> "num", n |-> n]
Arr(a) == [t |-> "arr", a |-> a]
Str(s) == [t |-> "str", s |-> s]

SeqUpTo(S, n) == UNION {[1..k -> S] : k \in 0..n}

Min(a, b) == IF a < b THEN a ELSE b
Max(a, b) == IF a > b THEN a ELSE b

(***************************************************************************)
(* JavaScript coercions used by extractByteRange.                          *)
(***************************************************************************)
\* arr[k] for a zero-based index k: undefined past the end.
JSIndex(a, k) == IF k < Len(a) THEN a[k + 1] ELSE Undefined

\* ToNumber: an array converts through its string form, which is a number
\* only when the array has at most one element.
ToNumber(v) ==
    CASE v.t = "num" -> v
      [] v.t = "arr" -> IF Len(v.a) = 0 THEN Num(0)
                        ELSE IF Len(v.a) = 1 THEN Num(v.a[1])
                        ELSE NaN
      [] OTHER -> NaN

\* The + operator: numeric addition for two numbers.  With an array operand
\* the result is the concatenation of the string forms ("0,1" + "2,1"), which
\* is not numeric for the two-element arrays of the locator; undefined +
\* undefined is NaN.
JSAdd(a, b) ==
    IF a.t = "num" /\ b.t = "num" THEN Num(a.n + b.n) ELSE NaN

\* ToIntegerOrInfinity: NaN becomes 0.
ToIntegerOrInfinity(v) == LET x == ToNumber(v) IN IF x.t = "num" THEN x.n ELSE 0

\* TypedArray.prototype.slice(start, end): both ends are clamped to the array.
SliceBounds(len, start, end) ==
    LET rs == ToIntegerOrInfinity(start)
        k == IF rs < 0 THEN Max(len + rs, 0) ELSE Min(rs, len)
        re == IF end.t = "undef" THEN len ELSE ToIntegerOrInfinity(end)
        final == IF re < 0 THEN Max(len + re, 0) ELSE Min(re, len)
    IN <<k, final>>

Slice(bytes, start, end) ==
    LET b == SliceBounds(Len(bytes), start, end)
    IN IF b[2] > b[1] THEN SubSeq(bytes, b[1] + 1, b[2]) ELSE <<>>

RECURSIVE Concat(_)
Concat(parts) == IF parts = <<>> THEN <<>> ELSE Head(parts) \o Concat(Tail(parts))

\* extractByteRange(pdfBytes, byteRanges): each element is a pair <<start, length>>
\* of JavaScript values.
extractByteRange(pdfBytes, byteRanges) ==
    Concat([i \in 1..Len(byteRanges) |->
              Slice(pdfBytes, byteRanges[i][1],
                    JSAdd(byteRanges[i][1], byteRanges[i][2]))])

\* The argument verifyPDFSignature builds from sigObj.byteRange: it reads the
\* indices 0..3 of the array the locator stored.
ByteRangeArgument(byteRange) ==
    <<  <<JSIndex(byteRange, 0), JSIndex(byteRange, 1)>>,
        <<JSIndex(byteRange, 2), JSIndex(byteRange, 3)>>  >>

\* The array the locator stores for a marker [o1 l1 o2 l2]: two pairs.
LocatorByteRange(m) == << Arr(<<m[1], m[2]>>), Arr(<<m[3], m[4]>>) >>

(***************************************************************************)
(* Certificates and signature envelopes, as node-forge hands them over.    *)
(***************************************************************************)
Names == {"A", "CA"}

Cert == [subject : Names, issuer : Names, notAfter : 0..MaxTime]

\* Digest of a byte string: an injective encoding, so that two different
\* strings never share a digest.
RECURSIVE Digest(_)
Digest(s) ==
    IF s = <<>> THEN 0
    ELSE (Head(s) + 1) + (Cardinality(Byte) + 1) * Digest(Tail(s))

\* a decoder that hands back an empty message for a blob it cannot decode
parseCMSSignatureLenient(contents) ==
    [threw |-> FALSE,
     p7 |-> [certificates |-> contents.certificates,
             signers |-> contents.signers]]

\* parseCMSSignature(hexContents): hexToBytes, fromDer and messageFromAsn1
\* throw on a malformed blob, else give the message with its certificates
\* and signers.
parseCMSSignature(contents) ==
    IF contents.wellFormed
    THEN [threw |-> FALSE,
          p7 |-> [certificates |-> contents.certificates,
                  signers |-> contents.signers]]
    ELSE [threw |-> TRUE, p7 |-> Null]

\* p7.verify(): the primitive of the envelope.  It is given no argument; the
\* only data of the caller it can see is what the caller fed to the digest
\* object signerInfo.md.  It throws, or compares that digest with the one the
\* signature covers.
P7Verify(signerInfo, mdBytes) ==
    [threw |-> signerInfo.verify = "throws",
     value |-> Digest(mdBytes) = signerInfo.digest]

Truthy(v) ==
    /\ v.t \notin {"null", "undef", "nan"}
    /\ (v.t = "str" => v.s # "")
    /\ (v.t = "num" => v.n # 0)

\* x || null
OrNull(v) == IF Truthy(v) THEN v ELSE Null

(***************************************************************************)
(* verifyPDFSignature                                                      *)
(***************************************************************************)
\* a result object kept between runs: the errors pushed for the last result of
\* the run before are still in it
InitialResultRetained ==
    [signerName |-> "Unknown", signingTime |-> Null, reason |-> Null,
     location |-> Null, certificates |-> <<>>, integrityValid |-> FALSE,
     certTrustValid |-> FALSE, isExpired |-> FALSE, isSelfSigned |-> FALSE,
     errors |-> IF "last" \in DOMAIN orig /\ orig.last.signatures # <<>>
                THEN orig.last.signatures[Len(orig.last.signatures)].errors
                ELSE <<>>,
     warnings |-> <<>>]

InitialResult ==
    [signerName |-> "Unknown", signingTime |-> Null, reason |-> Null,
     location |-> Null, certificates |-> <<>>, integrityValid |-> FALSE,
     certTrustValid |-> FALSE, isExpired |-> FALSE, isSelfSigned |-> FALSE,
     errors |-> <<>>, warnings |-> <<>>]

\* a catch block that records nothing
PushErrorSwallowed(result, e) == result

PushError(result, e) == [result EXCEPT !.errors = Append(@, e)]
PushWarning(result, w) == [result EXCEPT !.warnings = Append(@, w)]

\* an expiry test that counts the last valid instant as expired
IsExpiredAtInclusive(t, cert) == t >= cert.notAfter

\* now > cert.validity.notAfter
IsExpiredAt(t, cert) == t > cert.notAfter

\* cert.issuer.hash === cert.subject.hash: the hash is taken over the
\* distinguished name, equal exactly for equal names.
IsSelfSigned(cert) == cert.issuer = cert.subject

\* entry of result.certificates for one embedded certificate
ChainEntry(t, c) ==
    [subject |-> c.subject, issuer |-> c.issuer, validTo |-> c.notAfter,
     isExpired |-> IsExpiredAt(t, c)]

\* the signed bytes verifyPDFSignature extracts
SignedBytes(sigObj, pdfBytes) ==
    extractByteRange(pdfBytes, ByteRangeArgument(sigObj.byteRange.a))

\* an expiry check that reports the expired leaf as an error
ExpiryStepAsError(result, t, cert) ==
    LET r == [result EXCEPT !.isExpired = IsExpiredAt(t, cert)]
    IN IF r.isExpired THEN PushError(r, "expired") ELSE r

\* expiry check of the leaf certificate
ExpiryStep(result, t, cert) ==
    LET r == [result EXCEPT !.isExpired = IsExpiredAt(t, cert)]
    IN IF r.isExpired THEN PushWarning(r, "expired") ELSE r

\* self-signed check of the leaf certificate
SelfSignedStep(result, cert) ==
    LET r == [result EXCEPT !.isSelfSigned = IsSelfSigned(cert)]
    IN IF r.isSelfSigned THEN PushWarning(r, "self-signed") ELSE r

\* an integrity step whose catch block leaves the errors list alone
IntegrityStepSilent(result, p7, signedBytes) ==
    IF p7.signers = <<>>
    THEN [result EXCEPT !.integrityValid = FALSE]
    ELSE LET v == P7Verify(p7.signers[1], signedBytes)
         IN IF v.threw
            THEN [result EXCEPT !.integrityValid = FALSE]
            ELSE [result EXCEPT !.integrityValid = v.value]

\* integrity step: signerInfo.md throws when the message has no signer
IntegrityStep(result, p7, signedBytes) ==
    IF p7.signers = <<>>
    THEN PushError([result EXCEPT !.integrityValid = FALSE], "integrity")
    ELSE LET v == P7Verify(p7.signers[1], signedBytes)
         IN IF v.threw
            THEN PushError([result EXCEPT !.integrityValid = FALSE], "integrity")
            ELSE [result EXCEPT !.integrityValid = v.value]

\* a trust check that also asks for the issuer's certificate in the chain
TrustStepRequiringChain(result) ==
    [result EXCEPT !.certTrustValid =
        ~result.isSelfSigned /\ ~result.isExpired /\ Len(result.certificates) > 1]

\* a trust check that also asks for a valid integrity verdict
TrustStepWithIntegrity(result) ==
    [result EXCEPT !.certTrustValid =
        ~result.isSelfSigned /\ ~result.isExpired /\ result.integrityValid]

\* basic trust
TrustStep(result) ==
    [result EXCEPT !.certTrustValid = ~result.isSelfSigned /\ ~result.isExpired]

\* the branch taken when the envelope holds a certificate
CertificateBranch(result, p7, signedBytes, t) ==
    LET cert == p7.certificates[1]
        r1 == [result EXCEPT !.signerName = cert.subject]
        r2 == ExpiryStep(r1, t, cert)
        r3 == SelfSignedStep(r2, cert)
        r4 == [r3 EXCEPT !.certificates =
                  [i \in 1..Len(p7.certificates) |-> ChainEntry(t, p7.certificates[i])]]
        r5 == IntegrityStep(r4, p7, signedBytes)
    IN TrustStep(r5)

\* signing-time extraction: reading value[0].value of an attribute whose
\* value set is empty throws
SigningTimeStep(result, p7) ==
    IF p7.signers = <<>> \/ p7.signers[1].signingTime = "absent"
    THEN [threw |-> FALSE, result |-> result]
    ELSE IF p7.signers[1].signingTime = "empty"
    THEN [threw |-> TRUE, result |-> result]
    ELSE [threw |-> FALSE, result |-> [result EXCEPT !.signingTime = Str("utc")]]

\* a verification that runs the integrity check although the envelope holds
\* no certificate
verifyPDFSignatureCheckingWithoutCert(sigObj, pdfBytes, t) ==
    IF ~Truthy(sigObj.byteRange) \/ ~Truthy(sigObj.contents)
    THEN PushError(InitialResult, "missing")
    ELSE LET signedBytes == SignedBytes(sigObj, pdfBytes)
             parsed == parseCMSSignature(sigObj.contents)
         IN IF parsed.threw
            THEN PushError(InitialResult, "parse")
            ELSE LET p7 == parsed.p7
                     r1 == IF p7.certificates # <<>>
                           THEN CertificateBranch(InitialResult, p7, signedBytes, t)
                           ELSE IntegrityStep(PushError(InitialResult, "nocert"),
                                              p7, signedBytes)
                     st == SigningTimeStep(r1, p7)
                 IN IF st.threw
                    THEN PushError(st.result, "unexpected")
                    ELSE [st.result EXCEPT !.reason = OrNull(sigObj.reason),
                                           !.location = OrNull(sigObj.location)]

verifyPDFSignature(sigObj, pdfBytes, t) ==
    IF ~Truthy(sigObj.byteRange) \/ ~Truthy(sigObj.contents)
    THEN PushError(InitialResult, "missing")
    ELSE LET signedBytes == SignedBytes(sigObj, pdfBytes)
             parsed == parseCMSSignature(sigObj.contents)
         IN IF parsed.threw
            THEN PushError(InitialResult, "parse")
            ELSE LET p7 == parsed.p7
                     r1 == IF p7.certificates # <<>>
                           THEN CertificateBranch(InitialResult, p7, signedBytes, t)
                           ELSE PushError(InitialResult, "nocert")
                     st == SigningTimeStep(r1, p7)
                 IN IF st.threw
                    THEN PushError(st.result, "unexpected")
                    ELSE [st.result EXCEPT !.reason = OrNull(sigObj.reason),
                                           !.location = OrNull(sigObj.location)]

(***************************************************************************)
(* Status classification                                                   *)
(***************************************************************************)
\* a classifier that looks at the expiry flag before the errors list
getOverallStatusExpiredFirst(sig) ==
    IF sig.isExpired THEN "expired"
    ELSE IF Len(sig.errors) > 0 THEN "invalid"
    ELSE IF sig.isSelfSigned THEN "self-signed"
    ELSE IF ~sig.integrityValid THEN "tampered"
    ELSE IF ~sig.certTrustValid THEN "untrusted"
    ELSE "valid"

getOverallStatus(sig) ==
    IF Len(sig.errors) > 0 THEN "invalid"
    ELSE IF sig.isExpired THEN "expired"
    ELSE IF sig.isSelfSigned THEN "self-signed"
    ELSE IF ~sig.integrityValid THEN "tampered"
    ELSE IF ~sig.certTrustValid THEN "untrusted"
    ELSE "valid"

\* one entry of the report (the model's results carry no signerEmail)
ReportEntry(sig) ==
    [fieldName |-> sig.fieldName, signer |-> sig.signerName,
     signingTime |-> sig.signingTime, reason |-> sig.reason,
     location |-> sig.location, integrityValid |-> sig.integrityValid,
     certTrustValid |-> sig.certTrustValid, isExpired |-> sig.isExpired,
     isSelfSigned |-> sig.isSelfSigned, overallStatus |-> getOverallStatus(sig),
     certificates |-> sig.certificates, errors |-> sig.errors,
     warnings |-> sig.warnings]

\* a report that works the trust flag out again from the other flags
generateReportRecomputingTrust(filename, verificationResult) ==
    [reportGeneratedAt |-> [t |-> "iso", ms |-> now],
     file |-> filename,
     numPages |-> verificationResult.numPages,
     signaturesFound |-> Len(verificationResult.signatures),
     signatures |->
         [i \in 1..Len(verificationResult.signatures) |->
             LET sig == verificationResult.signatures[i]
             IN [ReportEntry(sig) EXCEPT
                    !.certTrustValid = /\ sig.integrityValid
                                       /\ ~sig.isExpired
                                       /\ ~sig.isSelfSigned]]]

generateReport(filename, verificationResult) ==
    [reportGeneratedAt |-> [t |-> "iso", ms |-> now],
     file |-> filename,
     numPages |-> verificationResult.numPages,
     signaturesFound |-> Len(verificationResult.signatures),
     signatures |->
         [i \in 1..Len(verificationResult.signatures) |->
             ReportEntry(verificationResult.signatures[i])]]

\* a reduction step without the guard acc === 'valid'
ReduceStepUnguarded(acc, sig) ==
    LET s == getOverallStatus(sig)
    IN IF s = "invalid" \/ s = "tampered" THEN "invalid"
       ELSE IF s \in {"expired", "self-signed", "untrusted"} THEN s
       ELSE acc

\* one step of the reduction of PDFVerifierTab over the signatures
ReduceStep(acc, sig) ==
    LET s == getOverallStatus(sig)
    IN IF s = "invalid" \/ s = "tampered" THEN "invalid"
       ELSE IF acc = "valid" /\ s \in {"expired", "self-signed", "untrusted"} THEN s
       ELSE acc

RECURSIVE Reduce(_, _)
Reduce(sigs, acc) ==
    IF sigs = <<>> THEN acc ELSE Reduce(Tail(sigs), ReduceStep(acc, Head(sigs)))

\* overallStatus of PDFVerifierTab for a non-null result
overallStatus(result) ==
    IF result.hasSignatures THEN Reduce(result.signatures, "valid") ELSE "none"

(***************************************************************************)
(* verifyPDFSignatures                                                     *)
(***************************************************************************)
NotYet == [t |-> "pending"]

\* sigFields: the form fields of type 'signature', named by their key
SignatureFields(form) ==
    LET idx == {j \in 1..Len(form) : form[j] = "signature"}
        RECURSIVE Pick(_, _)
        Pick(j, acc) ==
            IF j > Len(form) THEN acc
            ELSE Pick(j + 1, IF j \in idx THEN Append(acc, [name |-> j]) ELSE acc)
    IN Pick(1, <<>>)

\* the capture groups of a match: the four numbers of a byte range, the hex
\* digits of an envelope, the text of a reason or location
Capture(match) ==
    CASE match.kind = "ByteRange" ->
             IF match.value = 1 THEN <<0, 1, 2, 1>> ELSE <<0, MaxDocLen, 2, 1>>
      [] match.kind = "Contents" ->
             IF match.value = 1
             THEN [t |-> "hex", wellFormed |-> FALSE, certificates |-> <<>>,
                   signers |-> <<>>]
             ELSE [t |-> "hex", wellFormed |-> TRUE,
                   certificates |-> <<[subject |-> "A", issuer |-> "CA",
                                       notAfter |-> MaxTime]>>,
                   signers |-> <<[verify |-> "digest", digest |-> 0,
                                  signingTime |-> "absent"]>>]
      [] match.kind = "Reason" -> IF match.value = 1 THEN "r1" ELSE "r2"
      [] match.kind = "Location" -> IF match.value = 1 THEN "l1" ELSE "l2"

\* match.index of every match of one marker in the decoded text, in
\* document order
MatchIndex(text, kind) ==
    LET RECURSIVE Exec(_, _)
        Exec(p, acc) ==
            IF p > Len(text) THEN acc
            ELSE Exec(p + 1, IF text[p].kind = kind THEN Append(acc, p) ELSE acc)
    IN Exec(1, <<>>)

\* the capture groups of every match of one marker, in document order
Scan(text, kind) ==
    LET at == MatchIndex(text, kind)
    IN [j \in 1..Len(at) |-> Capture(text[at[j]])]

\* a pairing by proximity: each byte range takes the first match of every
\* other marker that follows it in the text
PairMarkersByProximity(f) ==
    LET brAt == MatchIndex(f.text, "ByteRange")
        Following(p, kind) == {q \in p + 1..Len(f.text) : f.text[q].kind = kind}
        First(S) == CHOOSE q \in S : \A r \in S : q <= r
    IN [i \in 1..Len(brAt) |->
           [byteRange |-> Arr(LocatorByteRange(Capture(f.text[brAt[i]]))),
            contents |-> IF Following(brAt[i], "Contents") = {} THEN Null
                         ELSE Capture(f.text[First(Following(brAt[i], "Contents"))]),
            reason |-> IF Following(brAt[i], "Reason") = {} THEN Null
                       ELSE Str(Capture(f.text[First(Following(brAt[i], "Reason"))])),
            location |-> IF Following(brAt[i], "Location") = {} THEN Null
                         ELSE Str(Capture(f.text[First(Following(brAt[i], "Location"))]))]]

\* a pairing that gives a byte range past the last contents match the last
\* contents match
PairMarkersReusingLast(f) ==
    [i \in 1..Len(f.byteRanges) |->
        [byteRange |-> Arr(LocatorByteRange(f.byteRanges[i])),
         contents |-> IF f.contents = <<>> THEN Null
                      ELSE f.contents[Min(i, Len(f.contents))],
         reason |-> IF i <= Len(f.reasons) THEN Str(f.reasons[i]) ELSE Null,
         location |-> IF i <= Len(f.locations) THEN Str(f.locations[i]) ELSE Null]]

\* the four ordered scans and the pairing by list index
PairMarkers(f) ==
    [i \in 1..Len(f.byteRanges) |->
        [byteRange |-> Arr(LocatorByteRange(f.byteRanges[i])),
         contents |-> IF i <= Len(f.contents) THEN f.contents[i] ELSE Null,
         reason |-> IF i <= Len(f.reasons) THEN Str(f.reasons[i]) ELSE Null,
         location |-> IF i <= Len(f.locations) THEN Str(f.locations[i]) ELSE Null]]

\* fieldName of the i-th result (i counted from 1)
FieldName(fields, i) ==
    IF i <= Len(fields) THEN [t |-> "field", name |-> fields[i].name]
    ELSE [t |-> "synthetic", n |-> i]

NoSignaturesOutput(f) ==
    [numPages |-> f.numPages, signatures |-> <<>>, hasSignatures |-> FALSE,
     message |-> Str("No digital signatures found in this document.")]

\* an output whose hasSignatures flag follows the form fields
ResolvedOutputByForm(f, sigs) ==
    [numPages |-> f.numPages, signatures |-> sigs,
     hasSignatures |-> Len(f.form) > 0, message |-> Null]

ResolvedOutput(f, sigs) ==
    [numPages |-> f.numPages, signatures |-> sigs,
     hasSignatures |-> Len(sigs) > 0, message |-> Null]

\* reader.readAsArrayBuffer(file) has been called; onload fires
ReaderOnLoad ==
    /\ pc = "reading"
    /\ pc' = "loading"
    /\ UNCHANGED <<now, file, sigFields, sigObjects, signatures, out, orig,
                   clsVars, certVars, uiVars>>

\* reader.onerror = reject
ReaderOnError ==
    /\ pc = "reading"
    /\ pc' = "rejected"
    /\ UNCHANGED <<now, file, sigFields, sigObjects, signatures, out, orig,
                   clsVars, certVars, uiVars>>

\* pdfjsLib.getDocument rejects: the catch of onload rejects the promise
GetDocumentReject ==
    /\ pc = "loading"
    /\ pc' = "rejected"
    /\ UNCHANGED <<now, file, sigFields, sigObjects, signatures, out, orig,
                   clsVars, certVars, uiVars>>

\* the document is loaded; getFieldObjects is awaited
GetDocumentResolve ==
    /\ pc = "loading"
    /\ pc' = "fields"
    /\ UNCHANGED <<now, file, sigFields, sigObjects, signatures, out, orig,
                   clsVars, certVars, uiVars>>

\* a locator without the gate: the markers are scanned whatever the form holds
LocateFieldsUngated ==
    /\ pc = "fields"
    /\ sigFields' = SignatureFields(file.form)
    /\ sigObjects' = PairMarkers(file)
    /\ pc' = "verify"
    /\ UNCHANGED <<now, file, signatures, out, orig, clsVars, certVars, uiVars>>

\* getFieldObjects resolved: the gate on sigFields, then the marker scans and
\* the pairing, up to the first await of the verification loop
LocateFields ==
    /\ pc = "fields"
    /\ LET sf == SignatureFields(file.form)
       IN /\ sigFields' = sf
          /\ IF Len(sf) = 0
             THEN /\ out' = NoSignaturesOutput(file)
                  /\ pc' = "resolved"
                  /\ UNCHANGED sigObjects
             ELSE /\ sigObjects' = PairMarkers(file)
                  /\ pc' = "verify"
                  /\ UNCHANGED out
    /\ UNCHANGED <<now, file, signatures, orig, clsVars, certVars, uiVars>>

\* { fieldName, ...verResult }
SignatureEntry(fieldName, verResult) ==
    [fieldName |-> fieldName,
     signerName |-> verResult.signerName, signingTime |-> verResult.signingTime,
     reason |-> verResult.reason, location |-> verResult.location,
     certificates |-> verResult.certificates,
     integrityValid |-> verResult.integrityValid,
     certTrustValid |-> verResult.certTrustValid,
     isExpired |-> verResult.isExpired, isSelfSigned |-> verResult.isSelfSigned,
     errors |-> verResult.errors, warnings |-> verResult.warnings]

\* one iteration of the verification loop
VerifyNext ==
    /\ pc = "verify"
    /\ Len(signatures) < Len(sigObjects)
    /\ LET i == Len(signatures) + 1
           verResult == verifyPDFSignature(sigObjects[i], file.bytes, now)
       IN signatures' = Append(signatures,
                               SignatureEntry(FieldName(sigFields, i), verResult))
    /\ UNCHANGED <<now, file, pc, sigFields, sigObjects, out, orig,
                   clsVars, certVars, uiVars>>

\* the loop is over: resolve
Resolve ==
    /\ pc = "verify"
    /\ Len(signatures) = Len(sigObjects)
    /\ out' = ResolvedOutput(file, signatures)
    /\ pc' = "resolved"
    /\ UNCHANGED <<now, file, sigFields, sigObjects, signatures, orig,
                   clsVars, certVars, uiVars>>

\* The user changes one byte of the verified document, keeping its markers,
\* and verifies the changed document.
Modify ==
    /\ pc = "resolved"
    /\ orig = NotYet
    /\ \E k \in 1..Len(file.bytes) : \E b \in Byte :
          /\ b # file.bytes[k]
          /\ file' = [file EXCEPT !.bytes[k] = b]
          /\ orig' = [file |-> file, out |-> out, sigObjects |-> sigObjects, k |-> k]
    /\ pc' = "reading"
    /\ sigFields' = <<>>
    /\ sigObjects' = <<>>
    /\ signatures' = <<>>
    /\ out' = NotYet
    /\ UNCHANGED <<now, clsVars, certVars, uiVars>>

(***************************************************************************)
(* Inputs                                                                  *)
(***************************************************************************)
Leaves == {c \in Cert : c.subject = "A"}
RootCert == [subject |-> "CA", issuer |-> "CA", notAfter |-> MaxTime]

Chains ==
    {<<>>} \cup {<<c>> : c \in Leaves}
           \cup {<<c, RootCert>> : c \in {l \in Leaves : l.issuer = "CA"}}

DigestSet == {Digest(s) : s \in SeqUpTo(Byte, 1)}

Signers ==
    {<<>>}
    \cup {<<[verify |-> "throws", digest |-> 0, signingTime |-> "absent"]>>}
    \cup {<<[verify |-> "digest", digest |-> d, signingTime |-> st]>> :
             d \in DigestSet, st \in {"absent", "utc", "empty"}}

Malformed == [t |-> "hex", wellFormed |-> FALSE, certificates |-> <<>>, signers |-> <<>>]

Envelopes ==
    {Malformed}
    \cup {[t |-> "hex", wellFormed |-> TRUE, certificates |-> ch, signers |-> sg] :
             ch \in Chains, sg \in Signers}

\* markers [o1 l1 o2 l2]: spans inside the document, a second span past its
\* end, and a first span running into the second
Markers ==
    {<<0, l1, 2, l2>> : l1 \in {1, MaxDocLen}, l2 \in {MaxDocLen - 2, MaxDocLen - 1}}

Documents == [1..MaxDocLen -> Byte]

Unused == [t |-> "unused"]

PdfStart ==
    /\ pc = "reading"
    /\ sigFields = <<>>
    /\ sigObjects = <<>>
    /\ signatures = <<>>
    /\ out = NotYet
    /\ orig = NotYet

\* the user interface before it is mounted
UiIdle ==
    /\ tab = "unused"
    /\ pdfResult = Null /\ pdfFileName = Null /\ history = <<>>
    /\ loading = FALSE /\ tabResult = Null /\ error = Null /\ fileName = Null
    /\ batchResults = <<>> /\ batchMode = FALSE
    /\ calls = <<>> /\ accepted = <<>> /\ drops = 0
    /\ report = Null

OthersUnused ==
    /\ csig = Unused /\ cstatus = Unused
    /\ certFile = Unused /\ certPc = "unused" /\ certOut = Unused
    /\ UiIdle

\* one signature field, every envelope
InitOne ==
    /\ now \in 1..MaxTime
    /\ file \in [bytes : Documents, numPages : {1},
                 form : {<<>>, <<"signature">>},
                 byteRanges : {<<m>> : m \in Markers},
                 contents : {<<>>} \cup {<<e>> : e \in Envelopes},
                 reasons : {<<>>, <<"r1">>},
                 locations : {<<"l1">>}]
    /\ PdfStart
    /\ OthersUnused

NextOne ==
    \/ ReaderOnLoad \/ ReaderOnError \/ GetDocumentReject \/ GetDocumentResolve
    \/ LocateFields \/ VerifyNext \/ Resolve \/ Modify

SpecOne == InitOne /\ [][NextOne]_vars

\* envelopes of every outcome class, for documents with several fields
CoreLeaf(issuer, notAfter) == [subject |-> "A", issuer |-> issuer, notAfter |-> notAfter]
CoreSigner(verify, bytes) ==
    <<[verify |-> verify, digest |-> Digest(bytes), signingTime |-> "absent"]>>
CoreEnvelope(chain, signers) ==
    [t |-> "hex", wellFormed |-> TRUE, certificates |-> chain, signers |-> signers]

CoreEnvelopes ==
    {Malformed,
     CoreEnvelope(<<>>, CoreSigner("digest", <<>>)),
     CoreEnvelope(<<CoreLeaf("CA", MaxTime)>>, CoreSigner("digest", <<>>)),
     CoreEnvelope(<<CoreLeaf("CA", MaxTime)>>, CoreSigner("digest", <<0>>)),
     CoreEnvelope(<<CoreLeaf("CA", MaxTime)>>, CoreSigner("throws", <<>>)),
     CoreEnvelope(<<CoreLeaf("CA", 0)>>, CoreSigner("digest", <<>>)),
     CoreEnvelope(<<CoreLeaf("A", MaxTime)>>, CoreSigner("digest", <<>>))}

CoreMarkers == {<<0, 1, 2, l2>> : l2 \in {MaxDocLen - 2, MaxDocLen - 1}}

CoreDocuments == {[i \in 1..MaxDocLen |-> b] : b \in Byte}

\* documents with up to MaxFields matches of each marker
Init ==
    /\ now \in 1..MaxTime
    /\ file \in [bytes : CoreDocuments, numPages : {1},
                 form : SeqUpTo({"signature", "text"}, MaxForm),
                 byteRanges : SeqUpTo(CoreMarkers, MaxFields),
                 contents : SeqUpTo(CoreEnvelopes, MaxFields),
                 reasons : {<<>>, <<"r1">>},
                 locations : {<<"l1">>}]
    /\ PdfStart
    /\ OthersUnused

Next ==
    \/ ReaderOnLoad \/ ReaderOnError \/ GetDocumentReject \/ GetDocumentResolve
    \/ LocateFields \/ VerifyNext \/ Resolve

Spec == Init /\ [][Next]_vars

(***************************************************************************)
(* Several verifications one after another                                 *)
(***************************************************************************)
MaxRuns == 3

RerunEnvelopes ==
    {Malformed,
     CoreEnvelope(<<CoreLeaf("CA", MaxTime)>>, CoreSigner("digest", <<>>)),
     CoreEnvelope(<<CoreLeaf("CA", 1)>>, CoreSigner("throws", <<>>))}

RerunDocuments ==
    [bytes : {[i \in 1..MaxDocLen |-> 0]}, numPages : {1},
     form : {<<"signature">>},
     byteRanges : {<<<<0, 1, 2, 1>>>>, <<<<0, 1, 2, 1>>, <<0, 1, 2, 1>>>>},
     contents : {<<>>} \cup {<<e>> : e \in RerunEnvelopes}
                \cup {<<d, e>> : d \in RerunEnvelopes, e \in RerunEnvelopes},
     reasons : {<<"r1">>}, locations : {<<"l1">>}]

\* the caller verifies a document again, or another document, once the
\* promise of the run before has resolved; the clock may have moved on
VerifyAgain ==
    /\ pc = "resolved"
    /\ IF orig = NotYet THEN TRUE ELSE orig.runs < MaxRuns
    /\ file' \in RerunDocuments
    /\ now' \in now..MaxTime
    /\ orig' = IF orig = NotYet
               THEN [file |-> file, now |-> now, out |-> out, last |-> out, runs |-> 2]
               ELSE [orig EXCEPT !.last = out, !.runs = @ + 1]
    /\ pc' = "reading"
    /\ sigFields' = <<>>
    /\ sigObjects' = <<>>
    /\ signatures' = <<>>
    /\ out' = NotYet
    /\ UNCHANGED <<clsVars, certVars, uiVars>>

InitRerun ==
    /\ now = 1
    /\ file \in RerunDocuments
    /\ PdfStart
    /\ OthersUnused

NextRerun == Next \/ VerifyAgain

SpecRerun == InitRerun /\ [][NextRerun]_vars

(***************************************************************************)
(* Direct calls of generateReport on the output of a verification          *)
(***************************************************************************)
GenerateReport ==
    /\ pc = "resolved"
    /\ report = Null
    /\ \E filename \in {Null, Str("a.pdf")} :
          report' = generateReport(filename, out)
    /\ UNCHANGED <<now, pdfVars, clsVars, certVars, appVars, tabVars,
                   calls, accepted, drops>>

NextReport == Next \/ GenerateReport

SpecReport == Init /\ [][NextReport]_vars

(***************************************************************************)
(* The field locator on documents whose markers lie in any order           *)
(***************************************************************************)
MaxTokens == 4

\* the matches a decoded text can hold: the marker and which of two texts
\* its capture groups hold
Tokens == [kind : {"ByteRange", "Contents", "Reason", "Location"}, value : 1..2]

\* the file whose decoded text holds the given matches
FileOfText(bytes, form, text) ==
    [bytes |-> bytes, numPages |-> 1, form |-> form, text |-> text,
     byteRanges |-> Scan(text, "ByteRange"),
     contents |-> Scan(text, "Contents"),
     reasons |-> Scan(text, "Reason"),
     locations |-> Scan(text, "Location")]

InitLocate ==
    /\ now = 1
    /\ \E text \in SeqUpTo(Tokens, MaxTokens) :
       \E form \in {<<>>, <<"text">>, <<"signature">>, <<"text", "signature">>,
                    <<"signature", "signature">>} :
          file = FileOfText([i \in 1..MaxDocLen |-> 0], form, text)
    /\ PdfStart
    /\ OthersUnused

SpecLocate == InitLocate /\ [][Next]_vars

(***************************************************************************)
(* The application: App, PDFVerifierTab and ReportTab                      *)
(***************************************************************************)
MaxDropped == 3     \* files dropped on the PDF Verifier tab, all drops together
MaxBatch == 2       \* files in one drop
HistoryCap == 50    \* entries kept by addToHistory

Tabs == {"pdf", "cert", "report"}

\* what the promise of verifyPDFSignatures(file) resolves with
VerifyDocument(f, t) ==
    LET sf == SignatureFields(f.form)
        objs == PairMarkers(f)
    IN IF Len(sf) = 0 THEN NoSignaturesOutput(f)
       ELSE ResolvedOutput(f,
                [i \in 1..Len(objs) |->
                    SignatureEntry(FieldName(sf, i),
                                   verifyPDFSignature(objs[i], f.bytes, t))])

UIDocument(form, contents) ==
    [bytes |-> [i \in 1..MaxDocLen |-> 0], numPages |-> 1, form |-> form,
     byteRanges |-> [i \in 1..Len(contents) |-> <<0, 1, 2, 1>>],
     contents |-> contents, reasons |-> <<>>, locations |-> <<>>]

\* the files the user can drop: one with a valid signature, one with a
\* tampered and an undecodable signature
UIFiles ==
    {[name |-> "a.pdf", size |-> MaxDocLen,
      doc |-> UIDocument(<<"signature">>,
                  <<CoreEnvelope(<<CoreLeaf("CA", MaxTime)>>, CoreSigner("digest", <<>>))>>)],
     [name |-> "b.pdf", size |-> MaxDocLen,
      doc |-> UIDocument(<<"signature", "signature">>,
                  <<CoreEnvelope(<<CoreLeaf("CA", MaxTime)>>, CoreSigner("digest", <<0>>)),
                    Malformed>>)]}

\* the output of every file at every clock value, worked out once
Outputs == [f \in UIFiles |-> [t \in 1..MaxTime |-> VerifyDocument(f.doc, t)]]

\* the ways the promise of one file settles: resolved; rejected by
\* reader.onerror with the error event; rejected with an Error of pdf.js
Settlements == {"resolved", "read-error", "load-error"}

\* err.message in the catch block
ErrMessage(o) == IF o = "read-error" THEN Undefined ELSE Str("Invalid PDF structure.")

\* the entry pushed for one file of a batch, or added to the history
Entry(f, o) ==
    [fileName |-> Str(f.name), fileSize |-> f.size,
     result |-> IF o = "resolved" THEN Outputs[f][now] ELSE Null,
     error |-> IF o = "resolved" THEN Undefined ELSE ErrMessage(o),
     time |-> now]

\* a history that is never cut
addToHistoryUnbounded(prev, entry) == <<entry>> \o prev

\* setHistory(prev => [entry, ...prev].slice(0, 50))
addToHistory(prev, entry) ==
    SubSeq(<<entry>> \o prev, 1, Min(Len(prev) + 1, HistoryCap))

\* the status shown on a batch card
BatchStatus(entry) ==
    IF entry.result # Null /\ entry.result.hasSignatures
    THEN Reduce(entry.result.signatures, "valid")
    ELSE IF Truthy(entry.error) THEN "invalid" ELSE "none"

showSingle == tabResult # Null /\ ~batchMode
showBatch == Len(batchResults) > 0 /\ batchMode

\* some element carrying getRootProps() is rendered
DropzoneRendered ==
    \/ tabResult = Null /\ ~loading /\ ~showBatch
    \/ showBatch /\ ~loading
    \/ showSingle

\* the state of a PDFVerifierTab that has just been mounted
TabMounted ==
    /\ loading' = FALSE /\ tabResult' = Null /\ error' = Null /\ fileName' = Null
    /\ batchResults' = <<>> /\ batchMode' = FALSE

\* the value of loading once processSingle has left its try statement
\* without the finally block
LoadingWithoutFinally(o) == o # "resolved"

\* the value of loading once processSingle has left its try statement
LoadingAfterSingle(o) == FALSE

\* onDrop: one file starts processSingle, several start processBatch; both
\* run up to their first await
OnDrop ==
    /\ tab = "pdf"
    /\ DropzoneRendered
    /\ \E n \in 1..MaxBatch : \E acceptedFiles \in [1..n -> UIFiles] :
          /\ drops + n <= MaxDropped
          /\ drops' = drops + n
          /\ accepted' = acceptedFiles
          /\ calls' = Append(calls, [kind |-> IF n = 1 THEN "single" ELSE "batch",
                                     files |-> acceptedFiles, results |-> <<>>,
                                     mounted |-> TRUE])
          /\ IF n = 1
             THEN /\ batchResults' = <<>>
                  /\ batchMode' = FALSE
                  /\ fileName' = Str(acceptedFiles[1].name)
             ELSE /\ fileName' = Null
                  /\ batchMode' = TRUE
                  /\ UNCHANGED batchResults
    /\ loading' = TRUE
    /\ tabResult' = Null
    /\ error' = Null
    /\ UNCHANGED <<now, pdfVars, clsVars, certVars, appVars, report>>

\* the list of activations without the p-th
Without(list, p) ==
    [j \in 1..Len(list) - 1 |-> IF j < p THEN list[j] ELSE list[j + 1]]

\* The promise awaited by the p-th activation settles and the activation runs
\* up to its next await or to its end.  State setters of an unmounted
\* component do nothing; addToHistory belongs to App.
Settle(p, o) ==
    /\ p \in 1..Len(calls)
    /\ LET c == calls[p]
           f == c.files[Len(c.results) + 1]
           entry == Entry(f, o)
           results == Append(c.results, entry)
           done == Len(results) = Len(c.files)
       IN /\ history' = IF o = "resolved" THEN addToHistory(history, entry)
                        ELSE history
          /\ IF c.kind = "single"
             THEN /\ calls' = Without(calls, p)
                  /\ IF c.mounted
                     THEN /\ IF o = "resolved"
                             THEN tabResult' = entry.result /\ UNCHANGED error
                             ELSE /\ error' = [t |-> "str", s |-> "Failed to process document: ",
                                               message |-> ErrMessage(o)]
                                  /\ UNCHANGED tabResult
                          /\ loading' = LoadingAfterSingle(o)
                          /\ UNCHANGED <<fileName, batchResults, batchMode>>
                     ELSE UNCHANGED tabVars
             ELSE /\ calls' = IF done THEN Without(calls, p)
                              ELSE [calls EXCEPT ![p].results = results]
                  /\ IF done /\ c.mounted
                     THEN /\ batchResults' = results
                          /\ loading' = FALSE
                          /\ UNCHANGED <<tabResult, error, fileName, batchMode>>
                     ELSE UNCHANGED tabVars
    /\ UNCHANGED <<now, pdfVars, clsVars, certVars, tab, pdfResult, pdfFileName,
                   accepted, drops, report>>

\* setTab(t) by a nav button or a keyboard shortcut: the tab shown before is
\* unmounted and the new one mounted; the Report tab renders its report
SetTab(t) ==
    /\ tab \in Tabs
    /\ t \in Tabs \ {tab}
    /\ tab' = t
    /\ IF tab = "pdf"
       THEN /\ TabMounted
            /\ calls' = [j \in 1..Len(calls) |-> [calls[j] EXCEPT !.mounted = FALSE]]
            /\ accepted' = <<>>
       ELSE UNCHANGED <<tabVars, calls, accepted>>
    /\ report' = IF t = "report" /\ pdfResult # Null
                 THEN generateReport(pdfFileName, pdfResult) ELSE Null
    /\ UNCHANGED <<now, pdfVars, clsVars, certVars, pdfResult, pdfFileName,
                   history, drops>>

\* a click on the i-th entry of the history sidebar
HistorySelect(i) ==
    /\ tab \in Tabs
    /\ i \in 1..Len(history)
    /\ pdfResult' = history[i].result
    /\ pdfFileName' = history[i].fileName
    /\ tab' = "pdf"
    /\ report' = Null
    /\ UNCHANGED <<now, pdfVars, clsVars, certVars, history, tabVars, calls,
                   accepted, drops>>

\* the Clear button of a single result
ClearSingle ==
    /\ tab = "pdf"
    /\ showSingle
    /\ tabResult' = Null
    /\ fileName' = Null
    /\ UNCHANGED <<now, pdfVars, clsVars, certVars, appVars, loading, error,
                   batchResults, batchMode, calls, accepted, drops, report>>

\* the Clear button of the batch results
ClearBatch ==
    /\ tab = "pdf"
    /\ showBatch /\ ~loading
    /\ batchResults' = <<>>
    /\ batchMode' = FALSE
    /\ UNCHANGED <<now, pdfVars, clsVars, certVars, appVars, loading, tabResult,
                   error, fileName, calls, accepted, drops, report>>

\* a click on the i-th batch card
OpenBatchEntry(i) ==
    /\ tab = "pdf"
    /\ showBatch /\ ~loading
    /\ i \in 1..Len(batchResults)
    /\ batchResults[i].result # Null
    /\ tabResult' = batchResults[i].result
    /\ fileName' = batchResults[i].fileName
    /\ batchMode' = FALSE
    /\ batchResults' = <<>>
    /\ UNCHANGED <<now, pdfVars, clsVars, certVars, appVars, loading, error,
                   calls, accepted, drops, report>>

InitUI ==
    /\ now = 1
    /\ tab = "pdf"
    /\ pdfResult = Null /\ pdfFileName = Null /\ history = <<>>
    /\ loading = FALSE /\ tabResult = Null /\ error = Null /\ fileName = Null
    /\ batchResults = <<>> /\ batchMode = FALSE
    /\ calls = <<>> /\ accepted = <<>> /\ drops = 0
    /\ report = Null
    /\ file = Unused /\ pc = "unused" /\ sigFields = <<>> /\ sigObjects = <<>>
    /\ signatures = <<>> /\ out = Unused /\ orig = Unused
    /\ csig = Unused /\ cstatus = Unused
    /\ certFile = Unused /\ certPc = "unused" /\ certOut = Unused

SettleSome == \E p \in 1..MaxDropped : \E o \in Settlements : Settle(p, o)

NextUI ==
    \/ OnDrop
    \/ SettleSome
    \/ \E t \in Tabs : SetTab(t)
    \/ \E i \in 1..HistoryCap : HistorySelect(i)
    \/ ClearSingle
    \/ ClearBatch
    \/ \E i \in 1..MaxBatch : OpenBatchEntry(i)

SpecUI == InitUI /\ [][NextUI]_vars

(***************************************************************************)
(* Direct calls of getOverallStatus                                        *)
(***************************************************************************)
Classify ==
    /\ cstatus = NotYet
    /\ cstatus' = Str(getOverallStatus(csig))
    /\ UNCHANGED <<now, pdfVars, csig, certVars, uiVars>>

InitClassify ==
    /\ csig \in [errors : SeqUpTo({"e"}, MaxErrors), warnings : {<<>>, <<"w">>},
                 isExpired : BOOLEAN, isSelfSigned : BOOLEAN,
                 integrityValid : BOOLEAN, certTrustValid : BOOLEAN]
    /\ cstatus = NotYet
    /\ now = 1
    /\ file = Unused /\ pc = "unused" /\ sigFields = <<>> /\ sigObjects = <<>>
    /\ signatures = <<>> /\ out = Unused /\ orig = Unused
    /\ certFile = Unused /\ certPc = "unused" /\ certOut = Unused
    /\ UiIdle

SpecClassify == InitClassify /\ [][Classify]_vars

(***************************************************************************)
(* verifyCertificate                                                       *)
(***************************************************************************)
\* characters of a certificate file: '-', '0', '1' and the byte 0x82
CertAlphabet == {45, 48, 49, 130}
Digits == {48, 49}

\* FileReader.readAsText: UTF-8 decoding; a byte that is no valid UTF-8
\* sequence becomes U+FFFD
readAsText(bytes) == [i \in 1..Len(bytes) |-> IF bytes[i] >= 128 THEN 65533 ELSE bytes[i]]

\* the certificate a payload character encodes
PayloadCert(c) ==
    IF c = 48 THEN [subject |-> "A", issuer |-> "CA", notAfter |-> MaxTime]
    ELSE [subject |-> "A", issuer |-> "A", notAfter |-> 0]

\* forge.pki.certificateFromPem: the text must open with the armour ('-')
\* followed by a base64 payload
certificateFromPem(text) ==
    IF Len(text) >= 2 /\ text[1] = 45 /\ text[2] \in Digits
    THEN [threw |-> FALSE, cert |-> PayloadCert(text[2])]
    ELSE [threw |-> TRUE, cert |-> Null]

\* forge.asn1.fromDer and certificateFromAsn1: the bytes must open with the
\* SEQUENCE tag 0x30 and a long-form length 0x82, followed by the payload
certificateFromDer(bytes) ==
    IF Len(bytes) >= 3 /\ bytes[1] = 48 /\ bytes[2] = 130 /\ bytes[3] \in Digits
    THEN [threw |-> FALSE, cert |-> PayloadCert(bytes[3])]
    ELSE [threw |-> TRUE, cert |-> Null]

\* ToNumber of a string: its decimal value when it is made of digits only
\* (0 for the empty string), else NaN
RECURSIVE DecimalValue(_, _)
DecimalValue(text, acc) ==
    IF text = <<>> THEN acc
    ELSE DecimalValue(Tail(text), 10 * acc + (Head(text) - 48))

StringToNumber(text) ==
    IF \A i \in 1..Len(text) : text[i] \in Digits
    THEN Num(DecimalValue(text, 0)) ELSE NaN

\* new Uint8Array(x) for a string x: the string is taken as a length and the
\* array is filled with zeros
Uint8ArrayOf(text) ==
    LET n == StringToNumber(text)
    IN [i \in 1..(IF n.t = "num" THEN n.n ELSE 0) |-> 0]

CertResult(cert, t) ==
    [t |-> "certificate", subject |-> cert.subject, issuer |-> cert.issuer,
     validTo |-> cert.notAfter, isExpired |-> IsExpiredAt(t, cert),
     isSelfSigned |-> IsSelfSigned(cert)]

\* the two decoding stages of reader.onload
DecodeCertificate(text) ==
    LET pem == certificateFromPem(text)
    IN IF ~pem.threw THEN pem ELSE certificateFromDer(Uint8ArrayOf(text))

\* reader.readAsText(file) has been called; onload fires
CertReaderOnLoad ==
    /\ certPc = "reading"
    /\ LET d == DecodeCertificate(readAsText(certFile))
       IN IF d.threw
          THEN /\ certPc' = "rejected"
               /\ certOut' = [t |-> "error", cause |-> "parse"]
          ELSE /\ certPc' = "resolved"
               /\ certOut' = CertResult(d.cert, now)
    /\ UNCHANGED <<now, pdfVars, clsVars, certFile, uiVars>>

\* reader.onerror = reject
CertReaderOnError ==
    /\ certPc = "reading"
    /\ certPc' = "rejected"
    /\ certOut' = [t |-> "error", cause |-> "read"]
    /\ UNCHANGED <<now, pdfVars, clsVars, certFile, uiVars>>

InitCert ==
    /\ now \in 1..MaxTime
    /\ certFile \in SeqUpTo(CertAlphabet, MaxFileLen)
    /\ certPc = "reading"
    /\ certOut = NotYet
    /\ file = Unused /\ pc = "unused" /\ sigFields = <<>> /\ sigObjects = <<>>
    /\ signatures = <<>> /\ out = Unused /\ orig = Unused
    /\ csig = Unused /\ cstatus = Unused
    /\ UiIdle

NextCert == CertReaderOnLoad \/ CertReaderOnError

SpecCert == InitCert /\ [][NextCert]_vars

(***************************************************************************)
(* Properties                                                              *)
(***************************************************************************)
Settled == pc = "resolved"

\* the i-th reported result and the descriptor it was computed from
ResultAt(i) == out.signatures[i]
EnvelopeAt(i) == sigObjects[i].contents
MarkerAt(i) == file.byteRanges[i]

\* the envelope of descriptor i was decoded and holds a leaf certificate
LeafFound(i) ==
    /\ Truthy(EnvelopeAt(i))
    /\ EnvelopeAt(i).wellFormed
    /\ EnvelopeAt(i).certificates # <<>>

\* outcome of the envelope's verification primitive for descriptor i
PrimitiveThrew(i) ==
    \/ EnvelopeAt(i).signers = <<>>
    \/ EnvelopeAt(i).signers[1].verify = "throws"
PrimitiveSucceeded(i) ==
    /\ ~PrimitiveThrew(i)
    /\ Digest(SignedBytes(sigObjects[i], file.bytes)) = EnvelopeAt(i).signers[1].digest
PrimitiveMismatch(i) == ~PrimitiveThrew(i) /\ ~PrimitiveSucceeded(i)

\* a marker [o1 l1 o2 l2] whose spans lie inside a document of length len
InBounds(m, len) == m[1] + m[2] <= len /\ m[3] + m[4] <= len
\* its two spans share a byte
Overlapping(m) == m[1] < m[3] + m[4] /\ m[3] < m[1] + m[2]
\* the zero-based offsets the marker covers
Covered(m) == (m[1]..(m[1] + m[2] - 1)) \cup (m[3]..(m[3] + m[4] - 1))

Severity(st) ==
    IF st \in {"invalid", "tampered"} THEN 2
    ELSE IF st \in {"expired", "self-signed", "untrusted"} THEN 1
    ELSE 0

FieldStatuses(o) == {getOverallStatus(o.signatures[i]) : i \in 1..Len(o.signatures)}

\* C1: getOverallStatus applies the precedence errors, isExpired,
\* isSelfSigned, integrityValid, certTrustValid, first match wins; a result
\* with errors is 'invalid' whatever its flags, and an all-good result with
\* exactly one flag flipped gets the label of that flag.
C1_Precedence ==
    cstatus # NotYet =>
        LET st == cstatus.s
            noErr == csig.errors = <<>>
        IN /\ (~noErr => st = "invalid")
           /\ (noErr /\ csig.isExpired => st = "expired")
           /\ (noErr /\ ~csig.isExpired /\ csig.isSelfSigned => st = "self-signed")
           /\ (noErr /\ ~csig.isExpired /\ ~csig.isSelfSigned /\ ~csig.integrityValid
                 => st = "tampered")
           /\ (noErr /\ ~csig.isExpired /\ ~csig.isSelfSigned /\ csig.integrityValid
                 /\ ~csig.certTrustValid => st = "untrusted")
           /\ (noErr /\ ~csig.isExpired /\ ~csig.isSelfSigned /\ csig.integrityValid
                 /\ csig.certTrustValid => st = "valid")

C1_Witness ==
    /\ cstatus # NotYet
    /\ csig.errors # <<>>
    /\ csig.isExpired
    /\ cstatus.s = "invalid"

C3_TamperDetected ==
    (/\ Settled
     /\ orig # NotYet
     /\ orig.out.hasSignatures
     /\ (orig.k - 1) \in Covered(MarkerAt(1))
     /\ orig.out.signatures[1].integrityValid
     /\ getOverallStatus(orig.out.signatures[1]) = "valid")
    => /\ ~ResultAt(1).integrityValid
       /\ getOverallStatus(ResultAt(1)) = "tampered"

\* C4 as stated: a descriptor with a span past the end of the document, or
\* with overlapping spans, gets a result with a non-empty errors list, and no
\* byte outside the document is read.
C4_InvalidDescriptorRejected ==
    Settled =>
        \A i \in 1..Len(out.signatures) :
            (~InBounds(MarkerAt(i), Len(file.bytes)) \/ Overlapping(MarkerAt(i))) =>
                /\ ResultAt(i).errors # <<>>
                /\ getOverallStatus(ResultAt(i)) = "invalid"
                /\ \A p \in 1..2 :
                      LET a == ByteRangeArgument(sigObjects[i].byteRange.a)[p]
                          b == SliceBounds(Len(file.bytes), a[1], JSAdd(a[1], a[2]))
                      IN 0 <= b[1] /\ b[2] <= Len(file.bytes)

\* C5 as stated: for a marker [o1 l1 o2 l2] with both spans inside the
\* document, the signed bytes are the bytes [o1, o1+l1) followed by the
\* bytes [o2, o2+l2), of length l1 + l2.
C5_SignedBytesAreTheSpans ==
    \A i \in 1..Len(sigObjects) :
        LET m == MarkerAt(i)
        IN InBounds(m, Len(file.bytes)) =>
              /\ SignedBytes(sigObjects[i], file.bytes)
                   = SubSeq(file.bytes, m[1] + 1, m[1] + m[2])
                     \o SubSeq(file.bytes, m[3] + 1, m[3] + m[4])
              /\ Len(SignedBytes(sigObjects[i], file.bytes)) = m[2] + m[4]

\* C6: when the locator yields no descriptor, the promise is resolved (it is
\* only ever rejected before the locator has run) with signatures = [] and
\* hasSignatures = false, and the document-level status is 'none'.
C6_NoDescriptorsGivesNone ==
    /\ (pc = "rejected" => sigFields = <<>> /\ sigObjects = <<>> /\ out = NotYet)
    /\ (Settled /\ sigObjects = <<>>) =>
          /\ out.signatures = <<>>
          /\ out.hasSignatures = FALSE
          /\ overallStatus(out) = "none"

C6_Witness ==
    /\ Settled
    /\ sigFields # <<>>
    /\ sigObjects = <<>>
    /\ out.message = Null
    /\ overallStatus(out) = "none"

Has(list, x) == \E j \in 1..Len(list) : list[j] = x

\* the descriptor of field i, taken from the i-th match of each marker alone
DescriptorAlone(i) ==
    [byteRange |-> Arr(<<Arr(<<file.byteRanges[i][1], file.byteRanges[i][2]>>),
                         Arr(<<file.byteRanges[i][3], file.byteRanges[i][4]>>)>>),
     contents |-> IF i <= Len(file.contents) THEN file.contents[i] ELSE Null,
     reason |-> IF i <= Len(file.reasons) THEN Str(file.reasons[i]) ELSE Null,
     location |-> IF i <= Len(file.locations) THEN Str(file.locations[i]) ELSE Null]

\* a failure raised while verifying field i: missing or undecodable envelope,
\* no certificate, or an exception of the primitive or of a later step
RaisedFailure(i) ==
    \/ ~Truthy(EnvelopeAt(i))
    \/ ~EnvelopeAt(i).wellFormed
    \/ EnvelopeAt(i).certificates = <<>>
    \/ PrimitiveThrew(i)
    \/ EnvelopeAt(i).signers[1].signingTime = "empty"

C8_EveryFailureRecorded ==
    Settled =>
        \A i \in 1..Len(out.signatures) :
            LeafFound(i) =>
                /\ (ResultAt(i).integrityValid => PrimitiveSucceeded(i))
                /\ (~PrimitiveSucceeded(i) =>
                       /\ ~ResultAt(i).integrityValid
                       /\ Has(ResultAt(i).errors, "integrity"))

\* C8, amended: integrityValid is true only when the primitive reported
\* success; when the integrity check throws, integrityValid is false and an
\* integrity error is appended; when the primitive reports a mismatch,
\* integrityValid is false and no integrity error is appended.
C8_ThrownFailureRecorded ==
    Settled =>
        \A i \in 1..Len(out.signatures) :
            LeafFound(i) =>
                /\ (ResultAt(i).integrityValid => PrimitiveSucceeded(i))
                /\ (PrimitiveThrew(i) =>
                       /\ ~ResultAt(i).integrityValid
                       /\ Has(ResultAt(i).errors, "integrity"))
                /\ (PrimitiveMismatch(i) =>
                       /\ ~ResultAt(i).integrityValid
                       /\ ~Has(ResultAt(i).errors, "integrity"))

C8_Witness ==
    /\ Settled
    /\ Len(out.signatures) = 1
    /\ LeafFound(1)
    /\ PrimitiveMismatch(1)
    /\ ~ResultAt(1).integrityValid
    /\ ResultAt(1).errors = <<>>
    /\ getOverallStatus(ResultAt(1)) = "tampered"

\* C9 as stated: a file that is a valid text-encoded certificate resolves
\* with that certificate; a file that is a valid binary-encoded certificate
\* and no valid text-encoded one resolves with the certificate's fields; a
\* file decodable under neither encoding is rejected.
C9_BinaryCertificateAccepted ==
    (certPc \in {"resolved", "rejected"} /\ ~(certOut.t = "error" /\ certOut.cause = "read")) =>
        LET pem == certificateFromPem(readAsText(certFile))
            der == certificateFromDer(certFile)
        IN IF ~pem.threw
           THEN certPc = "resolved" /\ certOut = CertResult(pem.cert, now)
           ELSE IF ~der.threw
           THEN certPc = "resolved" /\ certOut = CertResult(der.cert, now)
           ELSE certPc = "rejected" /\ certOut.t = "error"

\* C10: whenever a leaf certificate was found, certTrustValid equals
\* (not isSelfSigned and not isExpired), whatever the integrity outcome.
C10_TrustIsExpiryAndSelfSigned ==
    Settled =>
        \A i \in 1..Len(out.signatures) :
            LeafFound(i) =>
                ResultAt(i).certTrustValid
                    = (~ResultAt(i).isSelfSigned /\ ~ResultAt(i).isExpired)

C10_Witness ==
    /\ Settled
    /\ Len(out.signatures) = 1
    /\ LeafFound(1)
    /\ PrimitiveThrew(1)
    /\ ~ResultAt(1).integrityValid
    /\ ResultAt(1).certTrustValid

(***************************************************************************)
(* Expiry: the signature pipeline and the certificate inspector together   *)
(***************************************************************************)
InitExpiry == InitOne \/ InitCert

NextExpiry == NextOne \/ NextCert

SpecExpiry == InitExpiry /\ [][NextExpiry]_vars

(***************************************************************************)
(* Every operation that settles: the engine's two promises and the         *)
(* activations of the PDF Verifier tab.  The file read and the container   *)
(* load complete or fail, and every awaited promise settles; nothing is    *)
(* assumed of what the user does.                                          *)
(***************************************************************************)
InitSettle == InitRerun \/ InitCert \/ InitUI

NextSettle == Next \/ NextCert \/ NextUI

SpecSettle ==
    /\ InitSettle
    /\ [][NextSettle]_vars
    /\ WF_vars(Next)
    /\ WF_vars(NextCert)
    /\ WF_vars(SettleSome)

\* C11: isExpired is true exactly when now > notAfter: for the leaf flag of
\* a result, for every entry of its certificate chain, and for the result
\* of the certificate inspector; notAfter = now is not expired.
C11_ExpiryIsStrict ==
    /\ Settled =>
          \A i \in 1..Len(out.signatures) :
              LeafFound(i) =>
                  LET chain == EnvelopeAt(i).certificates
                  IN /\ ResultAt(i).isExpired = (now > chain[1].notAfter)
                     /\ Len(ResultAt(i).certificates) = Len(chain)
                     /\ \A j \in 1..Len(chain) :
                           ResultAt(i).certificates[j].isExpired = (now > chain[j].notAfter)
    /\ certPc = "resolved" =>
          /\ certOut.validTo = certificateFromPem(readAsText(certFile)).cert.notAfter
          /\ certOut.isExpired = (now > certOut.validTo)

C11_Witness ==
    /\ Settled
    /\ Len(out.signatures) = 1
    /\ LeafFound(1)
    /\ Len(EnvelopeAt(1).certificates) = 2
    /\ EnvelopeAt(1).certificates[1].notAfter = now
    /\ ~ResultAt(1).isExpired
    /\ ~ResultAt(1).certificates[1].isExpired

\* C13: every result whose leaf certificate was analysed carries a warning
\* that chain-of-trust validation and revocation checking were not
\* performed, i.e. a warning other than the two the leaf's own facts raise.
C13_UnperformedChecksWarned ==
    Settled =>
        \A i \in 1..Len(out.signatures) :
            LeafFound(i) =>
                \E j \in 1..Len(ResultAt(i).warnings) :
                    ResultAt(i).warnings[j] \notin {"expired", "self-signed"}

\* the envelope of descriptor i was decoded
Decoded(i) ==
    /\ Truthy(sigObjects[i].byteRange)
    /\ Truthy(EnvelopeAt(i))
    /\ EnvelopeAt(i).wellFormed

\* an exception is raised in a step after the decoding of envelope i
RaisedAfterDecode(i) ==
    \/ LeafFound(i) /\ PrimitiveThrew(i)
    \/ /\ EnvelopeAt(i).signers # <<>>
       /\ EnvelopeAt(i).signers[1].signingTime = "empty"

\* C18: when a step after the decoding of the envelope raises an exception,
\* an error is appended and the other steps still run: the result carries
\* the descriptor's reason and location and the leaf flags of the steps that
\* did not fail.
C18_StepsIndependentlyTolerant ==
    Settled =>
        \A i \in 1..Len(out.signatures) :
            (Decoded(i) /\ RaisedAfterDecode(i)) =>
                /\ Len(ResultAt(i).errors) > 0
                /\ ResultAt(i).reason = OrNull(sigObjects[i].reason)
                /\ ResultAt(i).location = OrNull(sigObjects[i].location)
                /\ LeafFound(i) =>
                      LET leaf == EnvelopeAt(i).certificates[1]
                      IN /\ ResultAt(i).isExpired = (now > leaf.notAfter)
                         /\ ResultAt(i).isSelfSigned = (leaf.issuer = leaf.subject)

\* the position in the text of the n-th match of a marker, 0 when the text
\* holds fewer than n
NthMatchAt(kind, n) ==
    LET hits == {p \in 1..Len(file.text) :
                    /\ file.text[p].kind = kind
                    /\ Cardinality({q \in 1..p - 1 : file.text[q].kind = kind}) = n - 1}
    IN IF hits = {} THEN 0 ELSE CHOOSE p \in hits : TRUE

\* the key of the n-th form field of type 'signature', 0 when there are fewer
NthSignatureField(n) ==
    LET hits == {j \in 1..Len(file.form) :
                    /\ file.form[j] = "signature"
                    /\ Cardinality({k \in 1..j - 1 : file.form[k] = "signature"}) = n - 1}
    IN IF hits = {} THEN 0 ELSE CHOOSE j \in hits : TRUE

\* C19: descriptor i takes the i-th byte-range match, the i-th contents
\* match, the i-th reason match and the i-th location match of the text,
\* each null when the text holds fewer, wherever the matches lie; result i
\* is named after the i-th signature-type form field, or 'Signature i+1'.
C19_PairedByIndex ==
    (pc \in {"verify", "resolved"} /\ sigFields # <<>>) =>
        /\ Len(sigObjects) = Cardinality({p \in 1..Len(file.text) :
                                             file.text[p].kind = "ByteRange"})
        /\ \A i \in 1..Len(sigObjects) :
              LET br == Capture(file.text[NthMatchAt("ByteRange", i)])
                  c == NthMatchAt("Contents", i)
                  r == NthMatchAt("Reason", i)
                  l == NthMatchAt("Location", i)
              IN /\ sigObjects[i].byteRange = Arr(<<Arr(<<br[1], br[2]>>), Arr(<<br[3], br[4]>>)>>)
                 /\ sigObjects[i].contents = IF c = 0 THEN Null ELSE Capture(file.text[c])
                 /\ sigObjects[i].reason = IF r = 0 THEN Null ELSE Str(Capture(file.text[r]))
                 /\ sigObjects[i].location = IF l = 0 THEN Null ELSE Str(Capture(file.text[l]))
        /\ Settled =>
              /\ Len(out.signatures) = Len(sigObjects)
              /\ \A i \in 1..Len(out.signatures) :
                    ResultAt(i).fieldName =
                        IF NthSignatureField(i) = 0 THEN [t |-> "synthetic", n |-> i]
                        ELSE [t |-> "field", name |-> NthSignatureField(i)]

\* a contents match ahead of the first byte range, two byte ranges in a row,
\* one signature field: the second result has a synthetic name
C19_Witness ==
    /\ Settled
    /\ Len(file.text) = 4
    /\ file.text[1].kind = "Contents"
    /\ file.text[2].kind = "ByteRange"
    /\ file.text[3].kind = "ByteRange"
    /\ file.text[4].kind = "Reason"
    /\ file.form = <<"text", "signature">>
    /\ sigObjects[1].contents = Capture(file.text[1])
    /\ sigObjects[2].contents = Null
    /\ sigObjects[1].reason = Str(Capture(file.text[4]))
    /\ ResultAt(1).fieldName = [t |-> "field", name |-> 2]
    /\ ResultAt(2).fieldName = [t |-> "synthetic", n |-> 2]

\* the result of a descriptor that is not complete
IsMissingResult(r) ==
    /\ r.errors = <<"missing">>
    /\ ~r.integrityValid /\ ~r.certTrustValid
    /\ ~r.isExpired /\ ~r.isSelfSigned
    /\ r.certificates = <<>>
    /\ r.signerName = "Unknown" /\ r.signingTime = Null
    /\ r.warnings = <<>>
    /\ getOverallStatus(r) = "invalid"

\* C20: a descriptor without a byte range or without an envelope (every
\* byte-range match at or past the number of contents matches) is still
\* reported, with the missing-descriptor error alone, nothing decoded or
\* analysed, both validity flags false, an empty chain and status 'invalid'.
C20_MissingDescriptorReported ==
    (Settled /\ sigFields # <<>>) =>
        /\ Len(out.signatures) = Len(file.byteRanges)
        /\ \A i \in 1..Len(out.signatures) :
              /\ i > Len(file.contents) => IsMissingResult(ResultAt(i))
              /\ IsMissingResult(verifyPDFSignature([sigObjects[i] EXCEPT !.byteRange = Null],
                                                    file.bytes, now))
              /\ IsMissingResult(verifyPDFSignature([sigObjects[i] EXCEPT !.byteRange = Undefined],
                                                    file.bytes, now))

C20_Witness ==
    /\ Settled
    /\ Len(out.signatures) = 2
    /\ Len(file.contents) = 1
    /\ file.contents[1].wellFormed
    /\ getOverallStatus(ResultAt(1)) = "valid"
    /\ ResultAt(2).errors = <<"missing">>
    /\ getOverallStatus(ResultAt(2)) = "invalid"

\* C15: generateReport is a projection of the verification output: the
\* count and the page count are those of the output, there is one entry per
\* signature in the same order, each entry's flags, errors and warnings are
\* those of its result, its overallStatus is getOverallStatus of that
\* result, and the output is what the verification resolved with.
C15_ReportIsProjection ==
    report # Null =>
        /\ Settled
        /\ out = IF sigFields = <<>> THEN NoSignaturesOutput(file)
                 ELSE ResolvedOutput(file, signatures)
        /\ report.numPages = out.numPages
        /\ report.signaturesFound = Len(out.signatures)
        /\ Len(report.signatures) = Len(out.signatures)
        /\ \A i \in 1..Len(out.signatures) :
              /\ report.signatures[i].fieldName = ResultAt(i).fieldName
              /\ report.signatures[i].signer = ResultAt(i).signerName
              /\ report.signatures[i].integrityValid = ResultAt(i).integrityValid
              /\ report.signatures[i].certTrustValid = ResultAt(i).certTrustValid
              /\ report.signatures[i].isExpired = ResultAt(i).isExpired
              /\ report.signatures[i].isSelfSigned = ResultAt(i).isSelfSigned
              /\ report.signatures[i].errors = ResultAt(i).errors
              /\ report.signatures[i].warnings = ResultAt(i).warnings
              /\ report.signatures[i].certificates = ResultAt(i).certificates
              /\ report.signatures[i].overallStatus = getOverallStatus(ResultAt(i))

\* a report of two signatures of different status
C15_Witness ==
    /\ report # Null
    /\ report.signaturesFound = 2
    /\ report.signatures[1].overallStatus = "tampered"
    /\ report.signatures[1].certTrustValid
    /\ report.signatures[2].overallStatus = "invalid"
    /\ report.signatures[2].errors # <<>>

\* a result without the name of its field
Unnamed(r) == [r EXCEPT !.fieldName = Null]

PipelineAgrees == Settled => out = VerifyDocument(file, now)

\* something is shown in the PDF Verifier tab: a result, batch cards or an error
Displayed == tabResult # Null \/ Len(batchResults) > 0 \/ error # Null

Statuses == {"valid", "invalid", "tampered", "expired", "self-signed", "untrusted"}

\* every call of verifyPDFSignatures and of verifyCertificate settles, each
\* resolved signature has a status, and every activation of processSingle
\* and processBatch runs to its end
PromisesSettle ==
    /\ (pc = "reading") ~> (pc \in {"resolved", "rejected"})
    /\ [](pc = "resolved" =>
             \A i \in 1..Len(out.signatures) : getOverallStatus(ResultAt(i)) \in Statuses)
    /\ (certPc = "reading") ~> (certPc \in {"resolved", "rejected"})
    /\ (calls # <<>>) ~> (calls = <<>>)

C14_ReportShowsVerifiedResult ==
    [][(tab = "pdf" /\ tabResult # Null /\ tab' = "report") =>
          /\ pdfResult' = tabResult
          /\ pdfFileName' = fileName
          /\ report' = generateReport(fileName, tabResult)]_vars

\* C17: a finished batch shows one entry per dropped file, in the order of
\* the drop; an entry of a rejected file has result = null and an error and
\* is displayed 'invalid'; any other entry holds the output of its own
\* file's verification and is displayed with that output's status.
C17_BatchEntriesPerFile ==
    (tab = "pdf" /\ showBatch /\ ~loading) =>
        /\ Len(batchResults) = Len(accepted)
        /\ \A i \in 1..Len(batchResults) :
              LET entry == batchResults[i]
              IN /\ entry.fileName = Str(accepted[i].name)
                 /\ IF entry.result = Null
                    THEN Truthy(entry.error) /\ BatchStatus(entry) = "invalid"
                    ELSE /\ entry.result = VerifyDocument(accepted[i].doc, now)
                         /\ BatchStatus(entry) = overallStatus(entry.result)

(***************************************************************************)
(* Decode failure and missing certificate                                  *)
(***************************************************************************)
\* the envelope of descriptor i is present and cannot be decoded
DecodeFails(i) == Truthy(EnvelopeAt(i)) /\ ~EnvelopeAt(i).wellFormed

\* a result that left verifyPDFSignature at the decode failure
IsDecodeErrorResult(r) ==
    /\ r.errors = <<"parse">>
    /\ r.warnings = <<>>
    /\ ~r.integrityValid /\ ~r.certTrustValid
    /\ ~r.isExpired /\ ~r.isSelfSigned
    /\ r.certificates = <<>>
    /\ r.signerName = "Unknown" /\ r.signingTime = Null
    /\ r.reason = Null /\ r.location = Null
    /\ getOverallStatus(r) = "invalid"

\* C21: when the envelope of a descriptor cannot be decoded, its result holds
\* exactly one error, the decode error, nothing of the certificate analysis,
\* the integrity check, the trust check or the signing-time extraction (all
\* flags false, empty chain, no warning, no signing time), and classifies as
\* 'invalid'; the output still holds one result per descriptor and every
\* sibling's result is the one of its own descriptor verified alone.
C21_DecodeFailureIsErrorResult ==
    (Settled /\ sigFields # <<>>) =>
        /\ Len(out.signatures) = Len(file.byteRanges)
        /\ \A i \in 1..Len(out.signatures) :
              DecodeFails(i) =>
                 /\ IsDecodeErrorResult(ResultAt(i))
                 /\ \A j \in 1..Len(out.signatures) :
                       j # i =>
                          ResultAt(j) =
                             SignatureEntry(FieldName(sigFields, j),
                                            verifyPDFSignature(DescriptorAlone(j),
                                                               file.bytes, now))

C21_Witness ==
    /\ Settled
    /\ Len(out.signatures) = 2
    /\ DecodeFails(1)
    /\ ResultAt(1).errors = <<"parse">>
    /\ sigObjects[1].reason # Null
    /\ ~DecodeFails(2)
    /\ Truthy(EnvelopeAt(2))
    /\ getOverallStatus(ResultAt(2)) = "valid"

\* the envelope of descriptor i was decoded and holds no certificate
NoCertificate(i) ==
    /\ Truthy(EnvelopeAt(i))
    /\ EnvelopeAt(i).wellFormed
    /\ EnvelopeAt(i).certificates = <<>>

\* C22: when the decoded envelope of a descriptor holds no certificate, the
\* result's errors hold the no-certificates error, integrityValid,
\* certTrustValid, isExpired and isSelfSigned are false, the chain is empty,
\* no certificate analysis left a trace (no warning, signer 'Unknown'), the
\* integrity check did not run (no integrity error, whatever the primitive
\* would have done), and the status is 'invalid'.
C22_NoCertificateIsErrorResult ==
    (Settled /\ sigFields # <<>>) =>
        \A i \in 1..Len(out.signatures) :
           NoCertificate(i) =>
              /\ ResultAt(i).errors \in {<<"nocert">>, <<"nocert", "unexpected">>}
              /\ ~Has(ResultAt(i).errors, "integrity")
              /\ ~ResultAt(i).integrityValid /\ ~ResultAt(i).certTrustValid
              /\ ~ResultAt(i).isExpired /\ ~ResultAt(i).isSelfSigned
              /\ ResultAt(i).certificates = <<>>
              /\ ResultAt(i).warnings = <<>>
              /\ ResultAt(i).signerName = "Unknown"
              /\ getOverallStatus(ResultAt(i)) = "invalid"

C22_Witness ==
    /\ Settled
    /\ Len(out.signatures) = 1
    /\ NoCertificate(1)
    /\ EnvelopeAt(1).signers # <<>>
    /\ EnvelopeAt(1).signers[1].verify = "throws"
    /\ ResultAt(1).errors = <<"nocert">>
    /\ getOverallStatus(ResultAt(1)) = "invalid"

(***************************************************************************)
(* Trust facts                                                             *)
(***************************************************************************)
\* descriptor i with its leaf replaced by one that is neither expired nor
\* self-signed, everything else kept
TrustedTwin(i) ==
    [sigObjects[i] EXCEPT
        !.contents.certificates =
            <<[subject |-> "A", issuer |-> "CA", notAfter |-> MaxTime]>> \o Tail(@)]

\* nothing but the trust facts can go wrong for descriptor i
NoOtherFailure(i) ==
    /\ LeafFound(i)
    /\ ~PrimitiveThrew(i)
    /\ EnvelopeAt(i).signers[1].signingTime # "empty"

\* C23: trust facts are flags and warnings, never errors: a result with
\* isExpired has the expiry warning, a result with isSelfSigned has the
\* self-signed warning, the errors of a result are those the same envelope
\* gives with an unexpired leaf issued by another name, and an expired or
\* self-signed signature with no other failure has no error and classifies
\* as 'expired' or 'self-signed'.
C23_TrustFactsAreWarnings ==
    (Settled /\ sigFields # <<>>) =>
        \A i \in 1..Len(out.signatures) :
           /\ ResultAt(i).isExpired => Has(ResultAt(i).warnings, "expired")
           /\ ResultAt(i).isSelfSigned => Has(ResultAt(i).warnings, "self-signed")
           /\ LeafFound(i) =>
                 ResultAt(i).errors =
                    verifyPDFSignature(TrustedTwin(i), file.bytes, now).errors
           /\ (NoOtherFailure(i) /\ (ResultAt(i).isExpired \/ ResultAt(i).isSelfSigned)) =>
                 /\ ResultAt(i).errors = <<>>
                 /\ getOverallStatus(ResultAt(i)) =
                       IF ResultAt(i).isExpired THEN "expired" ELSE "self-signed"

C23_Witness ==
    /\ Settled
    /\ Len(out.signatures) = 1
    /\ NoOtherFailure(1)
    /\ ResultAt(1).isExpired /\ ResultAt(1).isSelfSigned
    /\ ResultAt(1).warnings = <<"expired", "self-signed">>
    /\ ResultAt(1).errors = <<>>
    /\ ~ResultAt(1).integrityValid
    /\ getOverallStatus(ResultAt(1)) = "expired"

\* what the classifier can rely on in a result
Classifiable(r) ==
    /\ getOverallStatus(r) # "untrusted"
    /\ ~r.certTrustValid => (Len(r.errors) > 0 \/ r.isExpired \/ r.isSelfSigned)
    /\ getOverallStatus(r) = "valid" =>
          /\ r.certificates # <<>>
          /\ r.integrityValid
          /\ r.certTrustValid

\* C24: no result of verifyPDFSignature classifies as 'untrusted': a result
\* with certTrustValid false has an error, or isExpired, or isSelfSigned, so
\* an earlier rule of getOverallStatus applies; and a result classified
\* 'valid' has a non-empty chain, integrityValid and certTrustValid.  Stated
\* of every reported result and of the verification of every descriptor with
\* any envelope in its place.
C24_UntrustedNeverReported ==
    (Settled /\ sigFields # <<>>) =>
        \A i \in 1..Len(out.signatures) :
           /\ Classifiable(ResultAt(i))
           /\ \A e \in Envelopes :
                 Classifiable(verifyPDFSignature([sigObjects[i] EXCEPT !.contents = e],
                                                 file.bytes, now))

C24_Witness ==
    /\ Settled
    /\ Len(out.signatures) = 2
    /\ ~ResultAt(1).certTrustValid
    /\ ResultAt(1).errors = <<>>
    /\ ResultAt(1).integrityValid
    /\ getOverallStatus(ResultAt(1)) = "self-signed"
    /\ getOverallStatus(ResultAt(2)) = "valid"
    /\ Len(ResultAt(2).certificates) = 1

(***************************************************************************)
(* The gate on the form's signature fields                                 *)
(***************************************************************************)
\* the form enumeration yields a field of type 'signature'
HasSignatureField == \E j \in 1..Len(file.form) : file.form[j] = "signature"

\* number of byte-range marker matches in the decoded text
ByteRangeMatches ==
    Cardinality({k \in 1..Len(file.text) : file.text[k].kind = "ByteRange"})

\* C25: the reported signatures are gated by the form: without a field of
\* type 'signature' the output has no signature, hasSignatures false and the
\* 'no signatures found' message, whatever byte-range markers the text
\* holds; with one, the output holds as many signatures as the text has
\* byte-range matches, whatever the number of fields, hasSignatures is true
\* exactly when that number is positive, and message is null.
C25_GatedByFormFields ==
    Settled =>
        IF ~HasSignatureField
        THEN /\ out.signatures = <<>>
             /\ out.hasSignatures = FALSE
             /\ out.message # Null
             /\ out.message = Str("No digital signatures found in this document.")
        ELSE /\ Len(out.signatures) = ByteRangeMatches
             /\ out.hasSignatures = (ByteRangeMatches > 0)
             /\ out.message = Null

C25_Witness ==
    /\ Settled
    /\ file.form = <<"text">>
    /\ ByteRangeMatches = 2
    /\ Len(file.contents) = 2
    /\ out.signatures = <<>>
    /\ ~out.hasSignatures
    /\ out.message # Null

\* the other side of the gate: one field, two byte-range matches
CountFollowsMarkers ==
    /\ Settled
    /\ Len(sigFields) = 1
    /\ ByteRangeMatches = 2
    /\ Len(out.signatures) = 2
    /\ out.hasSignatures

(***************************************************************************)
(* Verifications in flight                                                 *)
(***************************************************************************)
\* C26 as stated: at most one PDF verification, single or batch, is in
\* flight at any time, under any interleaving of drops, tab switches,
\* history selections and completions: no activation of processSingle or
\* processBatch is started while an earlier one still awaits
\* verifyPDFSignatures.
C26_AtMostOneInFlight == Len(calls) <= 1

\* the same while the tab that started the verification stays mounted
OneInFlightPerMountedTab ==
    Cardinality({p \in 1..Len(calls) : calls[p].mounted}) <= 1

\* a completion is that of the activation started last
CompletionIsOfLatest ==
    [][\A p \in 1..MaxDropped : \A o \in Settlements :
          Settle(p, o) => p = Len(calls)]_vars

\* two verifications in flight, the first started by a tab since unmounted
TwoInFlight ==
    /\ Len(calls) = 2
    /\ ~calls[1].mounted /\ calls[2].mounted
    /\ calls[1].files # calls[2].files
    /\ loading

(***************************************************************************)
(* The history at its capacity                                             *)
(***************************************************************************)
\* The application after n single verifications have resolved and the last
\* result has been cleared: the oldest entry is of one file, the later ones
\* of the other.  drops counts the files dropped from here on.
InitHistory ==
    /\ now = 1
    /\ tab = "pdf"
    /\ pdfResult = Null /\ pdfFileName = Null
    /\ \E n \in {HistoryCap - 1, HistoryCap} : \E oldest \in UIFiles :
       \E later \in UIFiles \ {oldest} :
          history = [k \in 1..n |-> IF k = n THEN Entry(oldest, "resolved")
                                    ELSE Entry(later, "resolved")]
    /\ loading = FALSE /\ tabResult = Null /\ error = Null /\ fileName = Null
    /\ batchResults = <<>> /\ batchMode = FALSE
    /\ calls = <<>> /\ accepted = <<>> /\ drops = 0
    /\ report = Null
    /\ file = Unused /\ pc = "unused" /\ sigFields = <<>> /\ sigObjects = <<>>
    /\ signatures = <<>> /\ out = Unused /\ orig = Unused
    /\ csig = Unused /\ cstatus = Unused
    /\ certFile = Unused /\ certPc = "unused" /\ certOut = Unused

\* the steps of the application, the history sidebar being clicked on its
\* newest or on its oldest entry
NextHistory ==
    \/ OnDrop
    \/ SettleSome
    \/ \E t \in Tabs : SetTab(t)
    \/ \E i \in {1, Len(history)} : HistorySelect(i)
    \/ ClearSingle
    \/ ClearBatch
    \/ \E i \in 1..MaxBatch : OpenBatchEntry(i)

SpecHistory == InitHistory /\ [][NextHistory]_vars

\* the file whose verification the p-th activation is awaiting
AwaitedFile(p) == calls[p].files[Len(calls[p].results) + 1]

\* C27: after every step the history holds at most 50 entries, each of a
\* verification that resolved; a verification that resolves puts its entry
\* first and moves every earlier entry one place down, the entry in place 50
\* being dropped when the history was full; a verification that rejects, and
\* every other step, leaves the history as it is.
C27_HistoryKeepsLatestFifty ==
    [][/\ Len(history') <= HistoryCap
       /\ \A k \in 1..Len(history') : history'[k].result # Null
       /\ \A p \in 1..MaxDropped : \A o \in Settlements :
             Settle(p, o) =>
                IF o = "resolved"
                THEN /\ Len(history') = Min(Len(history) + 1, HistoryCap)
                     /\ history'[1] = Entry(AwaitedFile(p), o)
                     /\ \A k \in 2..Len(history') : history'[k] = history[k - 1]
                ELSE history' = history
       /\ ~SettleSome => history' = history]_vars

\* the history is full of entries later than the oldest one of the start:
\* that entry has been dropped, by a single and by a batch verification
C27_Witness ==
    /\ Len(history) = HistoryCap
    /\ \A k \in 1..Len(history) : history[k].fileName = history[1].fileName
    /\ drops = MaxDropped
    /\ calls = <<>>
    /\ Len(batchResults) = MaxBatch

====
